---------------------------- MODULE Spec2Model ----------------------------
(***************************************************************************)
(* Model of the bank-sync core of actual-budget's server:                  *)
(*   - the Nordigen orchestration service (src/unnamed/part_002),          *)
(*   - the per-institution bank adapters (src/unnamed/part_000, part_001,  *)
(*     src/src/app-gocardless/banks/*.js).                                 *)
(*                                                                         *)
(* JavaScript values are represented as follows.                           *)
(*   string     a sequence of one-character strings, <<"P","1">>, when its *)
(*              characters are inspected by the code; an opaque text (a    *)
(*              name) is a one-element sequence holding the whole text, a  *)
(*              date-time its date part followed by its time part          *)
(*   undefined  the sequence Undefined; null: the sequence Null            *)
(*   object     a function from the names of the fields that are present   *)
(*   array      a sequence                                                 *)
(* The result of a call is a record [kind, value, error]: kind "object",   *)
(* "array", "int", "null" for a returned value and "throw" for a raised    *)
(* error.                                                                  *)
(***************************************************************************)
EXTENDS Integers, Sequences, FiniteSets, TLC

\* ------------------------------------------------------------------ bounds
\* number of top-level service operations that may run concurrently
NumOps == 2
\* longest list of transactions handed to calculateStartingBalance
MaxTransactions == 2
\* longest list of balances handed to calculateStartingBalance
MaxBalances == 2
\* longest account list of a requisition
MaxAccounts == 2

\* ------------------------------------------------------------ JS values
Undefined == <<"undefined">>
Null == <<"null">>

\* obj.field: undefined when the field is absent
Get(obj, field) == IF field \in DOMAIN obj THEN obj[field] ELSE Undefined

\* JS truthiness of a string-or-undefined value: undefined, null and the empty
\* string are falsy
Truthy(v) == v # Undefined /\ v # Null /\ v # <<>>

\* a || b
Or(a, b) == IF Truthy(a) THEN a ELSE b

\* the characters the string conversion of a value concatenates
UndefinedText == <<"u","n","d","e","f","i","n","e","d">>
ToText(v) == IF v = Undefined THEN UndefinedText ELSE v

\* s.startsWith(prefix)
StartsWith(s, prefix) ==
  /\ Len(s) >= Len(prefix)
  /\ SubSeq(s, 1, Len(prefix)) = prefix

\* s.substring(n)
Substring(s, n) == SubSeq(s, n + 1, Len(s))

\* s.slice(-n)
SliceLast(s, n) == IF Len(s) <= n THEN s ELSE SubSeq(s, Len(s) - n + 1, Len(s))

\* array.join(' ') on an array of strings
RECURSIVE JoinSpace(_)
JoinSpace(array) ==
  IF array = <<>> THEN <<>>
  ELSE IF Len(array) = 1 THEN array[1]
  ELSE array[1] \o <<" ">> \o JoinSpace(Tail(array))

\* {...base, ...overrides}: the later spread wins
Spread(base, overrides) == overrides @@ base

\* results of calls
Returned(kind, value) == [kind |-> kind, value |-> value, error |-> "none"]
ReturnedNull == [kind |-> "null", value |-> Null, error |-> "none"]
Thrown(error) == [kind |-> "throw", value |-> Undefined, error |-> error]

\* ------------------------------------------------------------ ../utils.js
\* (utils.js and util/payee-name.js are not among the sources; these follow
\* the integer minor-unit contract of the specification)
Digit(c) ==
  CASE c = "0" -> 0 [] c = "1" -> 1 [] c = "2" -> 2 [] c = "3" -> 3
    [] c = "4" -> 4 [] c = "5" -> 5 [] c = "6" -> 6 [] c = "7" -> 7
    [] c = "8" -> 8 [] c = "9" -> 9

RECURSIVE DigitsValue(_, _)
DigitsValue(digits, acc) ==
  IF digits = <<>> THEN acc
  ELSE DigitsValue(Tail(digits), acc * 10 + Digit(Head(digits)))

RECURSIVE Pow10(_)
Pow10(k) == IF k = 0 THEN 1 ELSE 10 * Pow10(k - 1)

\* position of the decimal point in a decimal string, 0 when there is none
PointAt(s) ==
  IF \E i \in 1..Len(s) : s[i] = "."
  THEN CHOOSE i \in 1..Len(s) : s[i] = "."
  ELSE 0

\* amountToInteger(n) = Math.round(n * 100) on a decimal string
amountToInteger(n) ==
  LET negative == Len(n) > 0 /\ Head(n) = "-"
      body == IF negative THEN Tail(n) ELSE n
      point == PointAt(body)
      whole == IF point = 0 THEN body ELSE SubSeq(body, 1, point - 1)
      frac == IF point = 0 THEN <<>> ELSE SubSeq(body, point + 1, Len(body))
      scale == Pow10(Len(frac))
      digits == DigitsValue(whole \o frac, 0)
      signed == IF negative THEN 0 - digits ELSE digits
  IN  (2 * signed * 100 + scale) \div (2 * scale)

\* formatPayeeName(trans): an uninterpreted pure function of the transaction
formatPayeeName(trans) == <<"formatPayeeName", trans>>

\* printIban(account): the formatted IBAN, '(XXX ' + last four + ')'
printIban(account) ==
  <<"(", "X", "X", "X", " ">> \o SliceLast(Get(account, "iban"), 4) \o <<")">>

\* -------------------------------------------------------- error taxonomy
NoError == "none"

\* handleNordigenError with the cases 500 and 503 swapped
handleNordigenError_swapped(response) ==
  IF "status_code" \notin DOMAIN response THEN NoError
  ELSE CASE response.status_code = 400 -> "InvalidInputDataError"
         [] response.status_code = 401 -> "InvalidNordigenTokenError"
         [] response.status_code = 403 -> "AccessDeniedError"
         [] response.status_code = 404 -> "NotFoundError"
         [] response.status_code = 409 -> "ResourceSuspended"
         [] response.status_code = 429 -> "RateLimitError"
         [] response.status_code = 500 -> "ServiceError"
         [] response.status_code = 503 -> "UnknownError"
         [] OTHER -> NoError

\* handleNordigenError(response): the error it throws, NoError when it returns
handleNordigenError(response) ==
  IF "status_code" \notin DOMAIN response THEN NoError
  ELSE CASE response.status_code = 400 -> "InvalidInputDataError"
         [] response.status_code = 401 -> "InvalidNordigenTokenError"
         [] response.status_code = 403 -> "AccessDeniedError"
         [] response.status_code = 404 -> "NotFoundError"
         [] response.status_code = 409 -> "ResourceSuspended"
         [] response.status_code = 429 -> "RateLimitError"
         [] response.status_code = 500 -> "UnknownError"
         [] response.status_code = 503 -> "ServiceError"
         [] OTHER -> NoError

\* ------------------------------------------------ banks/integration-bank.js
\* The Fallback adapter (integration-bank.js is not among the sources; its four
\* operations follow section 4.1 of the specification).

\* index of the first balance of the given type, 0 when there is none
\* (balances.find)
FindBalance(balances, balanceType) ==
  IF \E i \in 1..Len(balances) : balances[i].balanceType = balanceType
  THEN CHOOSE i \in 1..Len(balances) :
         /\ balances[i].balanceType = balanceType
         /\ \A j \in 1..(i - 1) : balances[j].balanceType # balanceType
  ELSE 0

\* sortedTransactions.reduce((total, trans) =>
\*   total - amountToInteger(trans.transactionAmount.amount), initial)
RECURSIVE ReduceSubtract(_, _)
ReduceSubtract(sortedTransactions, total) ==
  IF sortedTransactions = <<>> THEN total
  ELSE ReduceSubtract(
         Tail(sortedTransactions),
         total - amountToInteger(Head(sortedTransactions).transactionAmount.amount))

Fallback_normalizeAccount(account) ==
  IF "iban" \notin DOMAIN account THEN Thrown("TypeError")
  ELSE Returned("object",
         [account_id |-> Get(account, "id"),
          institution |-> Get(account, "institution"),
          mask |-> SliceLast(account.iban, 4),
          iban |-> account.iban,
          name |-> ToText(Get(account, "ownerName")) \o <<" ">> \o printIban(account),
          official_name |-> Get(account, "product"),
          type |-> <<"checking">>])

Fallback_normalizeTransaction(transaction, booked) ==
  LET date == Or(Get(transaction, "bookingDate"),
              Or(Get(transaction, "bookingDateTime"),
              Or(Get(transaction, "valueDate"),
                 Get(transaction, "valueDateTime"))))
      remittance ==
        IF Truthy(Get(transaction, "remittanceInformationUnstructured"))
        THEN transaction.remittanceInformationUnstructured
        ELSE IF Truthy(Get(transaction, "remittanceInformationStructured"))
        THEN transaction.remittanceInformationStructured
        ELSE IF "remittanceInformationStructuredArray" \in DOMAIN transaction
        THEN JoinSpace(transaction.remittanceInformationStructuredArray)
        ELSE <<>>
      text ==
        IF ~Truthy(Get(transaction, "additionalInformation")) THEN remittance
        ELSE IF remittance = <<>> THEN transaction.additionalInformation
        ELSE remittance \o <<" ">> \o transaction.additionalInformation
  IN  IF ~Truthy(date) THEN ReturnedNull
      ELSE Returned("object",
             Spread(transaction,
               [creditorName |->
                  Or(Get(transaction, "ultimateCreditor"),
                  Or(Get(transaction, "creditorName"),
                     Get(transaction, "debtorName"))),
                remittanceInformationUnstructured |-> text,
                date |-> date]))

\* the default order is a stable pass-through
Fallback_sortTransactions(transactions) == Returned("array", transactions)

\* the first interimAvailable balance minus every transaction; an integer for
\* every list of balances
Fallback_calculateStartingBalance(sortedTransactions, balances) ==
  LET i == FindBalance(balances, "interimAvailable")
  IN  Returned("int",
        ReduceSubtract(sortedTransactions,
          IF i = 0 THEN 0 ELSE amountToInteger(balances[i].balanceAmount.amount)))

\* the operations of the Fallback object, each named by its implementation
Fallback ==
  [normalizeAccount |-> "Fallback",
   normalizeTransaction |-> "Fallback",
   sortTransactions |-> "Fallback",
   calculateStartingBalance |-> "Fallback"]
\* ------------------------------- banks/berliner_sparkasse_beladebexxx.js
BERLINER_normalizeAccount(account) ==
  IF "iban" \notin DOMAIN account THEN Thrown("TypeError")
  ELSE Returned("object",
         [account_id |-> Get(account, "id"),
          institution |-> Get(account, "institution"),
          mask |-> SliceLast(account.iban, 4),
          iban |-> account.iban,
          name |-> ToText(Get(account, "name")) \o <<" ">> \o printIban(account),
          official_name |-> Get(account, "product"),
          type |-> <<"checking">>])

\* the remittance text built by lines 48-63: the chosen remittance field, then
\* += ' ' + additionalInformation (on undefined the text "undefined" is
\* concatenated)
BERLINER_remittance(transaction) ==
  LET chosen ==
        IF Truthy(Get(transaction, "remittanceInformationUnstructured"))
        THEN transaction.remittanceInformationUnstructured
        ELSE IF Truthy(Get(transaction, "remittanceInformationStructured"))
        THEN transaction.remittanceInformationStructured
        ELSE IF /\ "remittanceInformationStructuredArray" \in DOMAIN transaction
                /\ Len(transaction.remittanceInformationStructuredArray) > 0
        THEN JoinSpace(transaction.remittanceInformationStructuredArray)
        ELSE Undefined
  IN  IF Truthy(Get(transaction, "additionalInformation"))
      THEN ToText(chosen) \o <<" ">> \o transaction.additionalInformation
      ELSE chosen

\* normalizeTransaction with the check `if (!date) return null` left out
BERLINER_normalizeTransaction_noNullDrop(transaction, booked) ==
  Returned("object",
    Spread(transaction,
      [creditorName |->
         Or(Get(transaction, "ultimateCreditor"),
         Or(Get(transaction, "creditorName"),
            Get(transaction, "debtorName"))),
       remittanceInformationUnstructured |-> BERLINER_remittance(transaction),
       date |-> Or(Get(transaction, "bookingDate"),
                   Get(transaction, "valueDate"))]))

BERLINER_normalizeTransaction(transaction, booked) ==
  LET date == Or(Get(transaction, "bookingDate"),
              Or(Get(transaction, "bookingDateTime"),
              Or(Get(transaction, "valueDate"),
                 Get(transaction, "valueDateTime"))))
      usefulCreditorName ==
        Or(Get(transaction, "ultimateCreditor"),
        Or(Get(transaction, "creditorName"),
           Get(transaction, "debtorName")))
  IN  IF ~Truthy(date) THEN ReturnedNull
      ELSE Returned("object",
             Spread(transaction,
               [creditorName |-> usefulCreditorName,
                remittanceInformationUnstructured |-> BERLINER_remittance(transaction),
                date |-> Or(Get(transaction, "bookingDate"),
                            Get(transaction, "valueDate"))]))

BERLINER_sortTransactions(transactions) == Fallback_sortTransactions(transactions)

\* calculateStartingBalance looking the current balance up as `interimBooked`
BERLINER_calculateStartingBalance_interimBooked(sortedTransactions, balances) ==
  LET currentBalance == FindBalance(balances, "interimBooked")
  IN  IF currentBalance = 0 THEN Thrown("TypeError")
      ELSE Returned("int",
             ReduceSubtract(sortedTransactions,
               amountToInteger(balances[currentBalance].balanceAmount.amount)))

BERLINER_calculateStartingBalance(sortedTransactions, balances) ==
  LET currentBalance == FindBalance(balances, "interimAvailable")
  IN  IF currentBalance = 0 THEN Thrown("TypeError")
      ELSE Returned("int",
             ReduceSubtract(sortedTransactions,
               amountToInteger(balances[currentBalance].balanceAmount.amount)))

BERLINER_SPARKASSE_BELADEBEXXX ==
  [normalizeAccount |-> "BERLINER_SPARKASSE_BELADEBEXXX",
   normalizeTransaction |-> "BERLINER_SPARKASSE_BELADEBEXXX",
   sortTransactions |-> "BERLINER_SPARKASSE_BELADEBEXXX",
   calculateStartingBalance |-> "BERLINER_SPARKASSE_BELADEBEXXX"]

\* ----------------------------------------------- banks/nordea_ndeadkkk.js
NORDEA_normalizeAccount(account) ==
  IF "iban" \notin DOMAIN account THEN Thrown("TypeError")
  ELSE Returned("object",
         [account_id |-> Get(account, "id"),
          institution |-> Get(account, "institution"),
          mask |-> SliceLast(account.iban, 4),
          iban |-> account.iban,
          name |-> ToText(Get(account, "name")) \o <<" ">> \o printIban(account),
          official_name |-> Get(account, "product"),
          type |-> <<"checking">>])

\* `return {Null}` builds an object from the identifier Null, which nothing
\* declares: evaluating it raises a ReferenceError
NORDEA_normalizeTransaction(transaction, booked) ==
  IF "transactionId" \notin DOMAIN transaction THEN Thrown("TypeError")
  ELSE IF StartsWith(transaction.transactionId, <<"P">>)
  THEN Thrown("ReferenceError")
  ELSE Returned("object",
         Spread(transaction,
           [payeeName |-> formatPayeeName(transaction),
            date |-> Or(Get(transaction, "bookingDate"),
                        Get(transaction, "valueDate"))]))

NORDEA_calculateStartingBalance(sortedTransactions, balances) ==
  LET currentBalance == FindBalance(balances, "interimAvailable")
  IN  IF currentBalance = 0 THEN Thrown("TypeError")
      ELSE Returned("int",
             ReduceSubtract(sortedTransactions,
               amountToInteger(balances[currentBalance].balanceAmount.amount)))

NORDEA_NDEADKKK ==
  Spread(Fallback,
    [normalizeAccount |-> "NORDEA_NDEADKKK",
     normalizeTransaction |-> "NORDEA_NDEADKKK",
     calculateStartingBalance |-> "NORDEA_NDEADKKK"])

\* ---------------------------------------------- banks/belfius_gkccbebb.js
BELFIUS_normalizeTransaction(transaction, booked) ==
  Returned("object",
    Spread(transaction,
      [transactionId |-> Get(transaction, "internalTransactionId"),
       date |-> Or(Get(transaction, "bookingDate"),
                   Get(transaction, "valueDate"))]))

BELFIUS_GKCCBEBB ==
  Spread(Fallback, [normalizeTransaction |-> "BELFIUS_GKCCBEBB"])

\* -------------------------------------------- banks/entercard_swednokk.js
BillingAmountPrefix ==
  <<"b","i","l","l","i","n","g","A","m","o","u","n","t",":"," ">>

\* the transaction object after lines 17-24 have run: transactionAmount is
\* assigned on the caller's object
ENTERCARD_transactionAfter(transaction) ==
  IF /\ "remittanceInformationUnstructured" \in DOMAIN transaction
     /\ StartsWith(transaction.remittanceInformationUnstructured, BillingAmountPrefix)
  THEN Spread(transaction,
         [transactionAmount |->
            [amount |-> Substring(transaction.remittanceInformationUnstructured,
                                  Len(BillingAmountPrefix)),
             currency |-> <<"SEK">>]])
  ELSE transaction

\* d.format(d.parseISO(valueDate), 'yyyy-MM-dd'): the date part of an ISO
\* date or date-time text
FormatISODate(valueDate) == <<Head(valueDate)>>

ENTERCARD_normalizeTransaction(transaction, booked) ==
  IF "remittanceInformationUnstructured" \notin DOMAIN transaction
  THEN Thrown("TypeError")
  ELSE IF "valueDate" \notin DOMAIN transaction
  THEN Thrown("RangeError")
  ELSE LET after == ENTERCARD_transactionAfter(transaction)
       IN  Returned("object",
             Spread(after,
               [payeeName |-> formatPayeeName(after),
                date |-> FormatISODate(after.valueDate)]))

\* balances[0]?.balanceAmount?.amount || 0
ENTERCARD_calculateStartingBalance(sortedTransactions, balances) ==
  Returned("int",
    ReduceSubtract(sortedTransactions,
      IF /\ Len(balances) > 0
         /\ "balanceAmount" \in DOMAIN balances[1]
         /\ Truthy(Get(balances[1].balanceAmount, "amount"))
      THEN amountToInteger(balances[1].balanceAmount.amount)
      ELSE 0))

ENTERCARD_SWEDNOKK ==
  [normalizeTransaction |-> "ENTERCARD_SWEDNOKK",
   calculateStartingBalance |-> "ENTERCARD_SWEDNOKK"]
\* ------------------------------------------------------- ../bank-factory.js
\* (bank-factory.js is not among the sources: section 4.2 of the specification.
\* A registered institution identifier yields its adapter, any other Fallback.)
BankFactory(institutionId) ==
  CASE institutionId = "BELFIUS_GKCCBEBB" -> BELFIUS_GKCCBEBB
    [] institutionId = "ENTERCARD_SWEDNOKK" -> ENTERCARD_SWEDNOKK
    [] institutionId = "NORDEA_NDEADKKK" -> NORDEA_NDEADKKK
    [] institutionId = "BERLINER_SPARKASSE_BELADEBEXXX" -> BERLINER_SPARKASSE_BELADEBEXXX
    [] OTHER -> Fallback

\* bank.normalizeAccount(account): a TypeError when the object has no such
\* property, else the implementation the property holds
CallNormalizeAccount(bank, account) ==
  IF "normalizeAccount" \notin DOMAIN bank THEN Thrown("TypeError")
  ELSE CASE bank.normalizeAccount = "Fallback" -> Fallback_normalizeAccount(account)
         [] bank.normalizeAccount = "NORDEA_NDEADKKK" -> NORDEA_normalizeAccount(account)
         [] bank.normalizeAccount = "BERLINER_SPARKASSE_BELADEBEXXX" ->
              BERLINER_normalizeAccount(account)

\* bank.normalizeTransaction(transaction, booked)
CallNormalizeTransaction(bank, transaction, booked) ==
  IF "normalizeTransaction" \notin DOMAIN bank THEN Thrown("TypeError")
  ELSE CASE bank.normalizeTransaction = "Fallback" ->
              Fallback_normalizeTransaction(transaction, booked)
         [] bank.normalizeTransaction = "BELFIUS_GKCCBEBB" ->
              BELFIUS_normalizeTransaction(transaction, booked)
         [] bank.normalizeTransaction = "ENTERCARD_SWEDNOKK" ->
              ENTERCARD_normalizeTransaction(transaction, booked)
         [] bank.normalizeTransaction = "NORDEA_NDEADKKK" ->
              NORDEA_normalizeTransaction(transaction, booked)
         [] bank.normalizeTransaction = "BERLINER_SPARKASSE_BELADEBEXXX" ->
              BERLINER_normalizeTransaction(transaction, booked)

\* the caller's transaction object once bank.normalizeTransaction has run
TransactionAfterCall(bank, transaction) ==
  IF /\ "normalizeTransaction" \in DOMAIN bank
     /\ bank.normalizeTransaction = "ENTERCARD_SWEDNOKK"
  THEN ENTERCARD_transactionAfter(transaction)
  ELSE transaction

\* bank.sortTransactions(transactions)
CallSortTransactions(bank, transactions) ==
  IF "sortTransactions" \notin DOMAIN bank THEN Thrown("TypeError")
  ELSE CASE bank.sortTransactions = "Fallback" -> Fallback_sortTransactions(transactions)
         [] bank.sortTransactions = "BERLINER_SPARKASSE_BELADEBEXXX" ->
              BERLINER_sortTransactions(transactions)

\* bank.calculateStartingBalance(sortedTransactions, balances)
CallCalculateStartingBalance(bank, sortedTransactions, balances) ==
  IF "calculateStartingBalance" \notin DOMAIN bank THEN Thrown("TypeError")
  ELSE CASE bank.calculateStartingBalance = "Fallback" ->
              Fallback_calculateStartingBalance(sortedTransactions, balances)
         [] bank.calculateStartingBalance = "ENTERCARD_SWEDNOKK" ->
              ENTERCARD_calculateStartingBalance(sortedTransactions, balances)
         [] bank.calculateStartingBalance = "NORDEA_NDEADKKK" ->
              NORDEA_calculateStartingBalance(sortedTransactions, balances)
         [] bank.calculateStartingBalance = "BERLINER_SPARKASSE_BELADEBEXXX" ->
              BERLINER_calculateStartingBalance(sortedTransactions, balances)
\* ------------------------------------------------------------------ state
VARIABLES
  \* the orchestration service (src/unnamed/part_002)
  token,             \* nordigenClient.token, "" while none is set
  op,                \* per request: the operation running and its arguments
  pc,                \* per request: the await it is suspended at
  requisition,       \* per request: the requisition it fetched
  awaiting,          \* per request: collaborator calls issued and not yet answered
  received,          \* per request: the answers of the current fan-out
  institutionIdSet,  \* per request: institutionIdSet, in insertion order
  calls,             \* per request: every collaborator call it issued, in order
  result,            \* per request: what the operation returned or threw
  \* one call of a pure function (adapters, handleNordigenError)
  fnCall,            \* the function called and the arguments as passed
  fnArgAfter,        \* the first argument object once the call has returned
  fnResult,          \* what the call returned or threw
  fnAgain            \* what a second call on the same object returned or threw

serviceVars ==
  <<token, op, pc, requisition, awaiting, received, institutionIdSet, calls, result>>
fnVars == <<fnCall, fnArgAfter, fnResult, fnAgain>>
vars == <<serviceVars, fnVars>>

\* ------------------------------------------- inputs of the pure functions
InstitutionIds ==
  {"BELFIUS_GKCCBEBB", "ENTERCARD_SWEDNOKK", "NORDEA_NDEADKKK",
   "BERLINER_SPARKASSE_BELADEBEXXX", "SANDBOXFINANCE_SFIN0000"}

\* every sequence over S of length at most n
SeqsUpTo(S, n) == UNION {[1..k -> S] : k \in 0..n}

\* every object holding a subset of the given optional fields; `values` gives
\* each field's set of possible values
RECURSIVE ObjectsOver(_, _)
ObjectsOver(values, fields) ==
  IF fields = {} THEN {<<>>}
  ELSE LET f == CHOOSE x \in fields : TRUE
           rest == ObjectsOver(values, fields \ {f})
       IN  rest \cup {(f :> v) @@ o : v \in values[f], o \in rest}

Objects(values) == ObjectsOver(values, DOMAIN values)

DateFieldValues ==
  [bookingDate |-> {<<"2024-01-01">>},
   bookingDateTime |-> {<<"2024-01-02", "T10:00:00Z">>},
   valueDate |-> {<<"2024-01-03">>},
   valueDateTime |-> {<<"2024-01-04", "T11:00:00Z">>}]

RemittanceFieldValues ==
  [remittanceInformationUnstructured |->
     {<<"h", "i">>, BillingAmountPrefix \o <<"1", "2", ".", "5", "0">>},
   remittanceInformationStructured |-> {<<"s", "t">>},
   remittanceInformationStructuredArray |-> {<<>>, << <<"a">>, <<"b">> >>},
   additionalInformation |-> {<<"a", "i">>}]

IdentityFieldValues ==
  [transactionId |-> {<<"P", "1">>, <<"T", "1">>},
   internalTransactionId |-> {<<"I", "1">>},
   creditorName |-> {<<"Creditor">>}]

EUR(amount) == [amount |-> amount, currency |-> <<"EUR">>]

\* raw transactions: any subset of the date, remittance and identity fields,
\* and a transactionAmount
RawTransactions ==
  {dates @@ remittance @@ identity @@ [transactionAmount |-> EUR(<<"-", "5", ".", "0", "0">>)] :
     dates \in Objects(DateFieldValues),
     remittance \in Objects(RemittanceFieldValues),
     identity \in Objects(IdentityFieldValues)}

Amounts == {<<"-", "5", ".", "0", "0">>, <<"2", ".", "0", "0">>, <<"0", ".", "1">>}
AmountTransactions == {[transactionAmount |-> EUR(a)] : a \in Amounts}
TransactionLists == SeqsUpTo(AmountTransactions, MaxTransactions)

BalanceEntries ==
  {[balanceType |-> t, balanceAmount |-> EUR(a)] :
     t \in {"interimAvailable", "interimBooked"},
     a \in {<<"1", "0", "0", "0", ".", "0", "0">>, <<"7", ".", "5">>}}
BalanceLists == SeqsUpTo(BalanceEntries, MaxBalances)

RawAccounts ==
  Objects([id |-> {"A1"},
           iban |-> {<<"D", "E", "8", "9", "3", "7", "0", "4">>, <<"N", "O", "1">>},
           name |-> {<<"Main">>},
           ownerName |-> {<<"Owner">>},
           product |-> {<<"Giro">>},
           institution |-> {[id |-> "NORDEA_NDEADKKK"]}])

StatusCodes ==
  {200, 201, 301, 400, 401, 402, 403, 404, 405, 409, 418, 429, 500, 502, 503, 504}
Responses ==
  {[detail |-> "body"]} \cup {[status_code |-> c, detail |-> "body"] : c \in StatusCodes}
\* ------------------------------------------ the collaborator's answers
\* (the Aggregation Client; the service sees only its responses)
Procs == 1..NumOps

AccountIds == {"A1", "A2", "A3", "A4"}

\* the institution the collaborator's metadata names for an account: A1 and
\* A2 share one
InstitutionOf(accountId) ==
  CASE accountId = "A1" -> "BELFIUS_GKCCBEBB"
    [] accountId = "A2" -> "BELFIUS_GKCCBEBB"
    [] accountId = "A3" -> "NORDEA_NDEADKKK"
    [] accountId = "A4" -> "ENTERCARD_SWEDNOKK"

\* account lists of a requisition: no account twice
AccountLists ==
  {l \in SeqsUpTo(AccountIds, MaxAccounts) :
     \A i, j \in 1..Len(l) : i # j => l[i] # l[j]}

\* a requisition is identified by what the collaborator stores for it: its
\* status, its accounts and its institution. Linked ones ("LN") carry every
\* account list and institution; created ("CR") and expired ("EX") ones carry
\* no account or one
RequisitionIds ==
  ({"LN"} \X AccountLists \X InstitutionIds)
  \cup ({"CR", "EX"} \X {<<>>, <<"A1">>} \X {"NORDEA_NDEADKKK"})

StoredRequisition(requisitionId) ==
  [id |-> requisitionId,
   status |-> requisitionId[1],
   accounts |-> requisitionId[2],
   institution_id |-> requisitionId[3]]

\* responses carrying an error status_code
ServiceErrorCodes == {404, 429}
ErrorResponses == {[status_code |-> c, summary |-> "error"] : c \in ServiceErrorCodes}

Tokens == {"t1", "t2"}
\* an error answer may carry an access field all the same
RejectedTokenResponses ==
  {[status_code |-> 401, summary |-> "error", access |-> "rejected"]}
TokenResponses ==
  {[access |-> t] : t \in Tokens} \cup ErrorResponses \cup RejectedTokenResponses
RequisitionResponses(requisitionId) ==
  {StoredRequisition(requisitionId)} \cup ErrorResponses
DeleteResponses == {[summary |-> "Requisition deleted"]} \cup ErrorResponses
InitSessionResponses(institutionId) ==
  {[id |-> <<"CR", <<>>, institutionId>>, link |-> "https://ob.example/start"]}
    \cup ErrorResponses
DetailsResponses(accountId) ==
  {[account |-> [iban |-> <<"D", "E", "0", "0">> \o <<accountId>>,
                 name |-> <<"Main">>,
                 product |-> <<"Giro">>]]}
    \cup ErrorResponses
MetadataResponses(accountId) ==
  {[id |-> accountId, institution_id |-> InstitutionOf(accountId)]} \cup ErrorResponses
InstitutionResponses(institutionId) ==
  {[id |-> institutionId, name |-> "Bank"]} \cup ErrorResponses

RefundTransaction == [transactionAmount |-> EUR(<<"2", ".", "0", "0">>)]
PaymentTransaction == [transactionAmount |-> EUR(<<"-", "5", ".", "0", "0">>)]
PendingTransaction == [transactionAmount |-> EUR(<<"0", ".", "1">>)]
TransactionsResponses ==
  {[transactions |-> [booked |-> b, pending |-> p]] :
     b \in {<<>>, <<PaymentTransaction>>, <<PaymentTransaction, RefundTransaction>>,
            <<RefundTransaction, PaymentTransaction>>},
     p \in {<<>>, <<PendingTransaction>>}}
    \cup {[last_updated |-> "2024-01-05"]}
    \cup ErrorResponses
AvailableBalance ==
  [balanceType |-> "interimAvailable",
   balanceAmount |-> EUR(<<"1", "0", "0", "0", ".", "0", "0">>)]
BookedBalance ==
  [balanceType |-> "interimBooked", balanceAmount |-> EUR(<<"7", ".", "5">>)]
BalancesResponses ==
  {[balances |-> l] :
     l \in {<<>>, <<AvailableBalance>>, <<BookedBalance>>,
            <<BookedBalance, AvailableBalance>>}}
    \cup ErrorResponses

\* -------------------------------------------------- nordigenService state
Idle == [name |-> "idle", requisitionId |-> <<>>, accountId |-> "-",
         institutionId |-> "-"]
Pending == [kind |-> "pending", value |-> Undefined, error |-> "none"]
ThrownWith(error, details) == [kind |-> "throw", value |-> details, error |-> error]

\* one collaborator call: the client method, its argument and the access
\* token the client held when the call was issued
Call(api, arg, tok) == [api |-> api, arg |-> arg, token |-> tok]

ServiceInit(tokens) ==
  /\ token \in tokens
  /\ op = [p \in Procs |-> Idle]
  /\ pc = [p \in Procs |-> "idle"]
  /\ requisition = [p \in Procs |-> <<>>]
  /\ awaiting = [p \in Procs |-> {}]
  /\ received = [p \in Procs |-> <<>>]
  /\ institutionIdSet = [p \in Procs |-> <<>>]
  /\ calls = [p \in Procs |-> <<>>]
  /\ result = [p \in Procs |-> Pending]

NoCall == [name |-> "none"]

\* ------------------------------------------------ nordigenService steps
\* An action is the code that runs between two awaits of one request: a
\* response arrives and the request runs on until it next waits for the
\* collaborator. The collaborator chooses each response.

\* the request stays suspended: its await, the calls it issued on the way,
\* the calls outstanding, the answers kept and institutionIdSet
Step(p, newPc, newCalls, newAwaiting, newReceived, newSet) ==
  /\ pc' = [pc EXCEPT ![p] = newPc]
  /\ calls' = [calls EXCEPT ![p] = @ \o newCalls]
  /\ awaiting' = [awaiting EXCEPT ![p] = newAwaiting]
  /\ received' = [received EXCEPT ![p] = newReceived]
  /\ institutionIdSet' = [institutionIdSet EXCEPT ![p] = newSet]
  /\ UNCHANGED result

\* the operation's promise settles; answers still outstanding no longer
\* reach the caller
Finish(p, outcome) ==
  /\ pc' = [pc EXCEPT ![p] = "done"]
  /\ result' = [result EXCEPT ![p] = outcome]
  /\ awaiting' = [awaiting EXCEPT ![p] = {}]
  /\ UNCHANGED <<calls, received, institutionIdSet>>

\* the same, the answer that arrived last being kept with the others
FinishWith(p, outcome, newReceived) ==
  /\ pc' = [pc EXCEPT ![p] = "done"]
  /\ result' = [result EXCEPT ![p] = outcome]
  /\ awaiting' = [awaiting EXCEPT ![p] = {}]
  /\ received' = [received EXCEPT ![p] = newReceived]
  /\ UNCHANGED <<calls, institutionIdSet>>

\* deleteRequisition calling the client's delete without fetching first
FirstCall_deleteUnverified(o, tok) ==
  IF o.name = "createRequisition"
  THEN Call("initSession", <<o.institutionId>>, tok)
  ELSE IF o.name = "deleteRequisition"
  THEN Call("deleteRequisition", o.requisitionId, tok)
  ELSE Call("getRequisitionById", o.requisitionId, tok)

\* the first collaborator call after `await nordigenService.setToken()`
FirstCall(o, tok) ==
  IF o.name = "createRequisition"
  THEN Call("initSession", <<o.institutionId>>, tok)
  ELSE Call("getRequisitionById", o.requisitionId, tok)

FirstAwait(o) == IF o.name = "createRequisition" THEN "initSession" ELSE "requisition"

\* setToken up to its await: with no token held generateToken is called
setToken(p, o) ==
  IF token = ""
  THEN Step(p, "token", <<Call("generateToken", <<>>, token)>>, {}, <<>>, <<>>)
  ELSE Step(p, FirstAwait(o), <<FirstCall(o, token)>>, {}, <<>>, <<>>)

\* a caller starts operation o as request p
Begin(p, o) ==
  /\ pc[p] = "idle"
  /\ op' = [op EXCEPT ![p] = o]
  /\ setToken(p, o)
  /\ UNCHANGED <<token, requisition>>

\* the access field stored before the answer is passed to handleNordigenError
\* (an answer without one leaves a token that tests as empty)
TokenAfter_storedFirst(tokenData, current) ==
  IF "access" \in DOMAIN tokenData THEN tokenData.access ELSE ""

\* nordigenClient.token after lines 54-55: handleNordigenError throws before
\* the assignment is reached
TokenAfter(tokenData, current) ==
  IF handleNordigenError(tokenData) # NoError THEN current ELSE Get(tokenData, "access")

\* generateToken answers: setToken lines 54-55, then the caller goes on
TokenResponse(p) ==
  /\ pc[p] = "token"
  /\ \E tokenData \in TokenResponses :
       IF handleNordigenError(tokenData) # NoError
       THEN /\ Finish(p, ThrownWith(handleNordigenError(tokenData), tokenData))
            /\ token' = TokenAfter(tokenData, token)
       ELSE /\ token' = TokenAfter(tokenData, token)
            /\ Step(p, FirstAwait(op[p]), <<FirstCall(op[p], tokenData.access)>>,
                    {}, <<>>, <<>>)
  /\ UNCHANGED <<op, requisition>>

\* the two client calls of getDetailedAccount for the i-th account
DetailCalls(accountId, tok) ==
  <<Call("getDetails", <<accountId>>, tok), Call("getMetadata", <<accountId>>, tok)>>

RECURSIVE AllDetailCalls(_, _)
AllDetailCalls(accountIds, tok) ==
  IF accountIds = <<>> THEN <<>>
  ELSE DetailCalls(Head(accountIds), tok) \o AllDetailCalls(Tail(accountIds), tok)

\* a guard under which only a requisition still in the created state is not linked
notLinked_createdOnly(status) == status = "CR"

\* a guard that lets every requisition through
notLinked_never(status) == FALSE

\* getLinkedRequisition line 80: status !== 'LN'
notLinked(status) == status # "LN"

\* what the caller of getLinkedRequisition does with a linked requisition
AfterLinkedRequisition(p, response) ==
  CASE op[p].name = "getLinkedRequisition" ->
         Finish(p, Returned("object", response))
    [] op[p].name = "getRequisitionWithAccounts" ->
         IF response.accounts = <<>>
         THEN Finish(p, Returned("object", [requisition |-> response, accounts |-> <<>>]))
         ELSE Step(p, "accounts", AllDetailCalls(response.accounts, token),
                   {<<api, i>> : api \in {"getDetails", "getMetadata"},
                                 i \in 1..Len(response.accounts)},
                   <<>>, <<>>)
    [] op[p].name = "getTransactionsWithBalance" ->
         IF \A i \in 1..Len(response.accounts) : response.accounts[i] # op[p].accountId
         THEN Finish(p, ThrownWith("AccountNotLinedToRequisition",
                          [accountId |-> op[p].accountId,
                           requisitionId |-> op[p].requisitionId]))
         ELSE Step(p, "transactions",
                   <<Call("getTransactions", <<op[p].accountId>>, token),
                     Call("getBalances", <<op[p].accountId>>, token)>>,
                   {<<"getTransactions", 0>>, <<"getBalances", 0>>}, <<>>, <<>>)

\* getRequisitionById answers: getRequisition lines 277-279, then its caller
RequisitionResponse(p) ==
  /\ pc[p] = "requisition"
  /\ \E response \in RequisitionResponses(op[p].requisitionId) :
       IF handleNordigenError(response) # NoError
       THEN /\ Finish(p, ThrownWith(handleNordigenError(response), response))
            /\ UNCHANGED requisition
       ELSE /\ requisition' = [requisition EXCEPT ![p] = response]
            /\ CASE op[p].name = "getRequisition" ->
                      Finish(p, Returned("object", response))
                 [] op[p].name = "deleteRequisition" ->
                      Step(p, "delete",
                           <<Call("deleteRequisition", op[p].requisitionId, token)>>,
                           {}, <<>>, <<>>)
                 [] OTHER ->
                      IF notLinked(response.status)
                      THEN Finish(p, ThrownWith("RequisitionNotLinked",
                                       [requisitionStatus |-> response.status]))
                      ELSE AfterLinkedRequisition(p, response)
  /\ UNCHANGED <<token, op>>

\* deleteRequisition lines 252-253
DeleteResponse(p) ==
  /\ pc[p] = "delete"
  /\ \E response \in DeleteResponses :
       IF handleNordigenError(response) # NoError
       THEN Finish(p, ThrownWith(handleNordigenError(response), response))
       ELSE Finish(p, Returned("object", response))
  /\ UNCHANGED <<token, op, requisition>>

\* createRequisition lines 223-230
InitSessionResponse(p) ==
  /\ pc[p] = "initSession"
  /\ \E response \in InitSessionResponses(op[p].institutionId) :
       IF handleNordigenError(response) # NoError
       THEN Finish(p, ThrownWith(handleNordigenError(response), response))
       ELSE Finish(p, Returned("object",
                     [link |-> response.link, requisitionId |-> response.id]))
  /\ UNCHANGED <<token, op, requisition>>

\* getDetailedAccount's return value: {...metadataAccount, ...detailedAccount.account}
DetailedAccount(detailedAccount, metadataAccount) ==
  Spread(metadataAccount,
         IF "account" \in DOMAIN detailedAccount THEN detailedAccount.account ELSE <<>>)

\* `handleNordigenError(response); return response;`
CheckedResponse(response) ==
  IF handleNordigenError(response) # NoError
  THEN ThrownWith(handleNordigenError(response), response)
  ELSE Returned("object", response)

\* getDetailedAccount with the metadata answer not passed to handleNordigenError
getDetailedAccount_metadataUnchecked(detailedAccount, metadataAccount) ==
  IF handleNordigenError(detailedAccount) # NoError
  THEN ThrownWith(handleNordigenError(detailedAccount), detailedAccount)
  ELSE Returned("object", DetailedAccount(detailedAccount, metadataAccount))

\* getDetailedAccount once both answers are there (lines 293-299)
getDetailedAccount(detailedAccount, metadataAccount) ==
  IF handleNordigenError(detailedAccount) # NoError
  THEN ThrownWith(handleNordigenError(detailedAccount), detailedAccount)
  ELSE IF handleNordigenError(metadataAccount) # NoError
  THEN ThrownWith(handleNordigenError(metadataAccount), metadataAccount)
  ELSE Returned("object", DetailedAccount(detailedAccount, metadataAccount))

\* getInstitution once getInstitutionById answered (lines 320-322)
getInstitution(response) == CheckedResponse(response)

\* getTransactions once the client answered (lines 363-365)
getTransactions(response) == CheckedResponse(response)

\* getBalances returning the answer without handleNordigenError
getBalances_unchecked(response) == Returned("object", response)

\* getBalances once the client answered (lines 384-386)
getBalances(response) == CheckedResponse(response)

\* the identifiers collected in an array, not in a Set
SetAdd_array(set, id) == Append(set, id)

\* institutionIdSet.add(id) on a Set kept in insertion order
SetAdd(set, id) ==
  IF \E j \in 1..Len(set) : set[j] = id THEN set ELSE Append(set, id)

\* the institution calls of lines 116-120, one per element of the Set
InstitutionCalls(set, tok) ==
  [j \in 1..Len(set) |-> Call("getInstitutionById", <<set[j]>>, tok)]

\* every account given the first institution fetched
extendAccountsAboutInstitutions_firstInstitution(accounts, institutions) ==
  [i \in 1..Len(accounts) |->
     Spread(accounts[i],
       [institution |-> IF institutions = <<>> THEN Null ELSE institutions[1]])]

\* extendAccountsAboutInstitutions: institutionsById keeps the last
\* institution of each id; an account without one gets null
extendAccountsAboutInstitutions(accounts, institutions) ==
  [i \in 1..Len(accounts) |->
     LET matching == {j \in 1..Len(institutions) :
                        institutions[j].id = Get(accounts[i], "institution_id")}
     IN  Spread(accounts[i],
           [institution |->
              IF matching = {} THEN Null
              ELSE institutions[CHOOSE j \in matching : \A k \in matching : k <= j]])]

\* lines 122-133 of getRequisitionWithAccounts: extend, normalize, return;
\* the first normalizeAccount that throws ends the operation
RequisitionWithAccounts(req, detailedAccounts, institutions) ==
  LET extendedAccounts == extendAccountsAboutInstitutions(detailedAccounts, institutions)
      normalized ==
        [i \in 1..Len(extendedAccounts) |->
           CallNormalizeAccount(BankFactory(extendedAccounts[i].institution_id),
                                extendedAccounts[i])]
      failed == {i \in 1..Len(normalized) : normalized[i].kind = "throw"}
  IN  IF failed # {}
      THEN normalized[CHOOSE i \in failed : \A k \in failed : i <= k]
      ELSE Returned("object",
             [requisition |-> req,
              accounts |-> [i \in 1..Len(normalized) |-> normalized[i].value]])

\* getDetails or getMetadata of one account answers; getDetailedAccount goes
\* on once both have (lines 293-299), then the map callback (line 111), and
\* after the last account the institution calls are issued (lines 116-120)
AccountResponse(p) ==
  /\ pc[p] = "accounts"
  /\ \E key \in awaiting[p] :
       \E response \in IF key[1] = "getDetails"
                       THEN DetailsResponses(requisition[p].accounts[key[2]])
                       ELSE MetadataResponses(requisition[p].accounts[key[2]]) :
         LET got == (key :> response) @@ received[p]
             left == awaiting[p] \ {key}
             details == <<"getDetails", key[2]>>
             metadata == <<"getMetadata", key[2]>>
         IN  IF ~({details, metadata} \subseteq DOMAIN got)
             THEN Step(p, "accounts", <<>>, left, got, institutionIdSet[p])
             ELSE IF getDetailedAccount(got[details], got[metadata]).kind = "throw"
             THEN FinishWith(p, getDetailedAccount(got[details], got[metadata]), got)
             ELSE LET account == getDetailedAccount(got[details], got[metadata]).value
                      set == SetAdd(institutionIdSet[p], Get(account, "institution_id"))
                  IN  IF left # {}
                      THEN Step(p, "accounts", <<>>, left, got, set)
                      ELSE Step(p, "institutions", InstitutionCalls(set, token),
                                {<<"getInstitutionById", j>> : j \in 1..Len(set)},
                                got, set)
  /\ UNCHANGED <<token, op, requisition>>

\* getInstitutionById answers: getInstitution lines 320-322; after the last
\* one lines 122-133
InstitutionResponse(p) ==
  /\ pc[p] = "institutions"
  /\ \E key \in awaiting[p] :
       \E response \in InstitutionResponses(institutionIdSet[p][key[2]]) :
         LET got == (key :> response) @@ received[p]
             left == awaiting[p] \ {key}
         IN  IF getInstitution(response).kind = "throw"
             THEN FinishWith(p, getInstitution(response), got)
             ELSE IF left # {}
             THEN Step(p, "institutions", <<>>, left, got, institutionIdSet[p])
             ELSE FinishWith(p,
                    RequisitionWithAccounts(
                      requisition[p],
                      [i \in 1..Len(requisition[p].accounts) |->
                         getDetailedAccount(got[<<"getDetails", i>>],
                                            got[<<"getMetadata", i>>]).value],
                      [j \in 1..Len(institutionIdSet[p]) |->
                         got[<<"getInstitutionById", j>>]]),
                    got)
  /\ UNCHANGED <<token, op, requisition>>

\* an array read through `?.` and handed to a parameter that defaults to []
OptionalArray(obj, outer, field) ==
  IF outer \in DOMAIN obj /\ field \in DOMAIN obj[outer] THEN obj[outer][field] ELSE <<>>

\* the starting balance computed from the pending transactions as well
TransactionsWithBalance_pendingCounted(req, transactions, accountBalance) ==
  LET bank == BankFactory(req.institution_id)
      sortedBookedTransactions ==
        CallSortTransactions(bank, OptionalArray(transactions, "transactions", "booked"))
      sortedPendingTransactions ==
        CallSortTransactions(bank, OptionalArray(transactions, "transactions", "pending"))
      balances == IF "balances" \in DOMAIN accountBalance
                  THEN accountBalance.balances ELSE <<>>
      startingBalance ==
        CallCalculateStartingBalance(
          bank, sortedBookedTransactions.value \o sortedPendingTransactions.value, balances)
  IN  IF sortedBookedTransactions.kind = "throw" THEN sortedBookedTransactions
      ELSE IF sortedPendingTransactions.kind = "throw" THEN sortedPendingTransactions
      ELSE IF startingBalance.kind = "throw" THEN startingBalance
      ELSE Returned("object",
             [balances |-> balances,
              institutionId |-> req.institution_id,
              startingBalance |-> startingBalance.value,
              transactions |-> [booked |-> sortedBookedTransactions.value,
                                pending |-> sortedPendingTransactions.value]])

\* lines 176-197 of getTransactionsWithBalance
TransactionsWithBalance(req, transactions, accountBalance) ==
  LET bank == BankFactory(req.institution_id)
      sortedBookedTransactions ==
        CallSortTransactions(bank, OptionalArray(transactions, "transactions", "booked"))
      sortedPendingTransactions ==
        CallSortTransactions(bank, OptionalArray(transactions, "transactions", "pending"))
      balances == IF "balances" \in DOMAIN accountBalance
                  THEN accountBalance.balances ELSE <<>>
      startingBalance ==
        CallCalculateStartingBalance(bank, sortedBookedTransactions.value, balances)
  IN  IF sortedBookedTransactions.kind = "throw" THEN sortedBookedTransactions
      ELSE IF sortedPendingTransactions.kind = "throw" THEN sortedPendingTransactions
      ELSE IF startingBalance.kind = "throw" THEN startingBalance
      ELSE Returned("object",
             [balances |-> balances,
              institutionId |-> req.institution_id,
              startingBalance |-> startingBalance.value,
              transactions |-> [booked |-> sortedBookedTransactions.value,
                                pending |-> sortedPendingTransactions.value]])

\* getTransactions or getBalances answers (lines 363-365, 384-386); after
\* both, lines 176-197
TransactionsResponse(p) ==
  /\ pc[p] = "transactions"
  /\ \E key \in awaiting[p] :
       \E response \in IF key[1] = "getTransactions"
                       THEN TransactionsResponses ELSE BalancesResponses :
         LET got == (key :> response) @@ received[p]
             left == awaiting[p] \ {key}
             answer == IF key[1] = "getTransactions"
                       THEN getTransactions(response) ELSE getBalances(response)
         IN  IF answer.kind = "throw"
             THEN FinishWith(p, answer, got)
             ELSE IF left # {}
             THEN Step(p, "transactions", <<>>, left, got, <<>>)
             ELSE FinishWith(p,
                    TransactionsWithBalance(requisition[p],
                      got[<<"getTransactions", 0>>], got[<<"getBalances", 0>>]),
                    got)
  /\ UNCHANGED <<token, op, requisition>>

\* ------------------------------------------------------------ operations
Operation(name, requisitionId, accountId, institutionId) ==
  [name |-> name, requisitionId |-> requisitionId, accountId |-> accountId,
   institutionId |-> institutionId]

\* the operations that only fetch, create or delete a requisition
RequisitionOperations(requisitionIds) ==
  {Operation(name, r, "-", "-") :
     name \in {"getRequisition", "getLinkedRequisition", "deleteRequisition"},
     r \in requisitionIds}
  \cup {Operation("createRequisition", <<>>, "-", "NORDEA_NDEADKKK")}

\* getRequisitionWithAccounts never reads the requisition's own institution_id
\* (the adapters are resolved from the accounts' metadata), so its requisitions
\* all carry one; getTransactionsWithBalance is asked for an account that
\* requisitions of every length hold or lack
AccountOperations(requisitionIds) ==
  {Operation("getRequisitionWithAccounts", r, "-", "-") :
     r \in {x \in requisitionIds : x[3] = "NORDEA_NDEADKKK"}}
  \cup {Operation("getTransactionsWithBalance", r, a, "-") :
          r \in requisitionIds, a \in {"A1", "A4"}}

\* the requisitions asked for by concurrent requests: one linked, one not
ConcurrentRequisitionIds ==
  {<<"LN", <<"A1", "A2">>, "BERLINER_SPARKASSE_BELADEBEXXX">>,
   <<"CR", <<>>, "NORDEA_NDEADKKK">>}

\* a caller starts a requisition operation while others may be running
Start(p) ==
  \E o \in RequisitionOperations(ConcurrentRequisitionIds) :
    Begin(p, o) /\ UNCHANGED fnVars

\* a caller starts any operation, on any requisition
StartRequest(p) ==
  \E o \in RequisitionOperations(RequisitionIds) \cup AccountOperations(RequisitionIds) :
    Begin(p, o) /\ UNCHANGED fnVars

\* ------------------------------------------------ calls of pure functions
FnInit ==
  /\ fnCall = NoCall
  /\ fnArgAfter = <<>>
  /\ fnResult = Pending
  /\ fnAgain = Pending

\* the process starts with no access token and nothing called
Init == ServiceInit({""}) /\ FnInit

\* one request, in a process that may hold a token from an earlier one
InitRequest == ServiceInit({"", "t0"}) /\ FnInit

\* concurrent requests of the requisition operations
Next ==
  \E p \in Procs :
    \/ Start(p)
    \/ TokenResponse(p) /\ UNCHANGED fnVars
    \/ RequisitionResponse(p) /\ UNCHANGED fnVars
    \/ DeleteResponse(p) /\ UNCHANGED fnVars
    \/ InitSessionResponse(p) /\ UNCHANGED fnVars

Spec == Init /\ [][Next]_vars

\* one request of any operation
NextRequest ==
  \/ StartRequest(1)
  \/ TokenResponse(1) /\ UNCHANGED fnVars
  \/ RequisitionResponse(1) /\ UNCHANGED fnVars
  \/ DeleteResponse(1) /\ UNCHANGED fnVars
  \/ InitSessionResponse(1) /\ UNCHANGED fnVars
  \/ AccountResponse(1) /\ UNCHANGED fnVars
  \/ InstitutionResponse(1) /\ UNCHANGED fnVars
  \/ TransactionsResponse(1) /\ UNCHANGED fnVars

SpecRequest == InitRequest /\ [][NextRequest]_vars

NormalizeAccount ==
  /\ fnCall = NoCall
  /\ \E institutionId \in InstitutionIds, account \in RawAccounts :
       /\ fnCall' = [name |-> "normalizeAccount", institutionId |-> institutionId,
                     arg |-> account]
       /\ fnArgAfter' = account
       /\ fnResult' = CallNormalizeAccount(BankFactory(institutionId), account)
       /\ fnAgain' = CallNormalizeAccount(BankFactory(institutionId), account)
  /\ UNCHANGED serviceVars

NormalizeTransaction ==
  /\ fnCall = NoCall
  /\ \E institutionId \in InstitutionIds, transaction \in RawTransactions,
        booked \in BOOLEAN :
       LET bank == BankFactory(institutionId)
           after == TransactionAfterCall(bank, transaction)
       IN  /\ fnCall' = [name |-> "normalizeTransaction",
                         institutionId |-> institutionId,
                         arg |-> transaction, booked |-> booked]
           /\ fnArgAfter' = after
           /\ fnResult' = CallNormalizeTransaction(bank, transaction, booked)
           /\ fnAgain' = CallNormalizeTransaction(bank, after, booked)
  /\ UNCHANGED serviceVars

SortTransactions ==
  /\ fnCall = NoCall
  /\ \E institutionId \in InstitutionIds, transactions \in TransactionLists :
       /\ fnCall' = [name |-> "sortTransactions", institutionId |-> institutionId,
                     arg |-> transactions]
       /\ fnArgAfter' = transactions
       /\ fnResult' = CallSortTransactions(BankFactory(institutionId), transactions)
       /\ fnAgain' = CallSortTransactions(BankFactory(institutionId), transactions)
  /\ UNCHANGED serviceVars

CalculateStartingBalance ==
  /\ fnCall = NoCall
  /\ \E institutionId \in InstitutionIds, sortedTransactions \in TransactionLists,
        balances \in BalanceLists :
       /\ fnCall' = [name |-> "calculateStartingBalance",
                     institutionId |-> institutionId,
                     arg |-> sortedTransactions, balances |-> balances]
       /\ fnArgAfter' = sortedTransactions
       /\ fnResult' = CallCalculateStartingBalance(BankFactory(institutionId),
                        sortedTransactions, balances)
       /\ fnAgain' = CallCalculateStartingBalance(BankFactory(institutionId),
                       sortedTransactions, balances)
  /\ UNCHANGED serviceVars

\* handleNordigenError(response) called on its own
HandleNordigenError ==
  /\ fnCall = NoCall
  /\ \E response \in Responses :
       /\ fnCall' = [name |-> "handleNordigenError", arg |-> response]
       /\ fnArgAfter' = response
       /\ fnResult' = IF handleNordigenError(response) = NoError
                      THEN Returned("undefined", Undefined)
                      ELSE ThrownWith(handleNordigenError(response), response)
       /\ fnAgain' = fnResult'
  /\ UNCHANGED serviceVars

\* one call is made from the initial state
NextFunctions ==
  \/ NormalizeAccount
  \/ NormalizeTransaction
  \/ SortTransactions
  \/ CalculateStartingBalance
  \/ HandleNordigenError

\* every adapter operation and the error mapping, each applied to every input
SpecFunctions == Init /\ [][NextFunctions]_vars
\* ===================================================== adapter properties
RegisteredInstitutionIds ==
  {"BELFIUS_GKCCBEBB", "ENTERCARD_SWEDNOKK", "NORDEA_NDEADKKK",
   "BERLINER_SPARKASSE_BELADEBEXXX"}

AdapterOperations ==
  {"normalizeAccount", "normalizeTransaction", "sortTransactions",
   "calculateStartingBalance"}

\* two results are the same result
SameResult(a, b) == a.kind = b.kind /\ a = b

\* the adapter's source text defines the operation (it holds an implementation
\* of its own under that name)
DefinesItself(institutionId, operation) ==
  /\ operation \in DOMAIN BankFactory(institutionId)
  /\ BankFactory(institutionId)[operation] = institutionId

\* what Fallback's operation gives on the arguments of the call made
FallbackResult ==
  CASE fnCall.name = "normalizeAccount" ->
         CallNormalizeAccount(Fallback, fnCall.arg)
    [] fnCall.name = "normalizeTransaction" ->
         CallNormalizeTransaction(Fallback, fnCall.arg, fnCall.booked)
    [] fnCall.name = "sortTransactions" ->
         CallSortTransactions(Fallback, fnCall.arg)
    [] fnCall.name = "calculateStartingBalance" ->
         CallCalculateStartingBalance(Fallback, fnCall.arg, fnCall.balances)

\* C5: on every registered adapter, an operation the adapter does not define
\* itself gives the result Fallback's operation gives on the same input.
C5_OverrideIsolation ==
  (/\ fnCall.name \in AdapterOperations
   /\ fnCall.institutionId \in RegisteredInstitutionIds
   /\ ~DefinesItself(fnCall.institutionId, fnCall.name))
  => SameResult(fnResult, FallbackResult)

DateFields == {"bookingDate", "bookingDateTime", "valueDate", "valueDateTime"}

\* C6: the default normalizeTransaction (BERLINER_SPARKASSE_BELADEBEXXX) returns
\* null for every transaction that has none of the four date fields.
C6_NullDrop ==
  (/\ fnCall.name = "normalizeTransaction"
   /\ fnCall.institutionId = "BERLINER_SPARKASSE_BELADEBEXXX"
   /\ DOMAIN fnCall.arg \cap DateFields = {})
  => fnResult.kind = "null"

\* a transaction without dates, with other fields and not booked, was dropped
C6_Witness ==
  /\ fnCall.name = "normalizeTransaction"
  /\ fnCall.institutionId = "BERLINER_SPARKASSE_BELADEBEXXX"
  /\ DOMAIN fnCall.arg \cap DateFields = {}
  /\ "additionalInformation" \in DOMAIN fnCall.arg
  /\ "transactionId" \in DOMAIN fnCall.arg
  /\ ~fnCall.booked
  /\ fnResult.kind = "null"

\* the first of the four date fields that is present
FirstPresentDate(transaction) ==
  IF "bookingDate" \in DOMAIN transaction THEN transaction.bookingDate
  ELSE IF "bookingDateTime" \in DOMAIN transaction THEN transaction.bookingDateTime
  ELSE IF "valueDate" \in DOMAIN transaction THEN transaction.valueDate
  ELSE transaction.valueDateTime

\* C7: a normalized transaction that is returned has a non-null date, and the
\* default algorithm's date is the first present of bookingDate,
\* bookingDateTime, valueDate, valueDateTime.
C7_DateNonNull ==
  (fnCall.name = "normalizeTransaction" /\ fnResult.kind = "object")
  => /\ fnResult.value.date # Undefined
     /\ fnResult.value.date # Null
     /\ fnCall.institutionId = "BERLINER_SPARKASSE_BELADEBEXXX"
          => fnResult.value.date = FirstPresentDate(fnCall.arg)

\* C8: normalizeAccount and normalizeTransaction leave the record passed in
\* unchanged, and a second call on it gives an equal output.
C8_Pure ==
  fnCall.name \in {"normalizeAccount", "normalizeTransaction"}
  => /\ fnArgAfter = fnCall.arg
     /\ SameResult(fnResult, fnAgain)

RECURSIVE SumAmounts(_)
SumAmounts(transactions) ==
  IF transactions = <<>> THEN 0
  ELSE SumAmounts(SubSeq(transactions, 1, Len(transactions) - 1))
       + amountToInteger(transactions[Len(transactions)].transactionAmount.amount)

HasInterimAvailable(balances) ==
  \E i \in 1..Len(balances) : balances[i].balanceType = "interimAvailable"

FirstInterimAvailable(balances) ==
  balances[CHOOSE i \in 1..Len(balances) :
             /\ balances[i].balanceType = "interimAvailable"
             /\ \A j \in 1..(i - 1) : balances[j].balanceType # "interimAvailable"]

Taxonomy ==
  {<<400, "InvalidInputDataError">>, <<401, "InvalidNordigenTokenError">>,
   <<403, "AccessDeniedError">>, <<404, "NotFoundError">>,
   <<409, "ResourceSuspended">>, <<429, "RateLimitError">>,
   <<500, "UnknownError">>, <<503, "ServiceError">>}

\* C10: handleNordigenError raises the one typed error of the response's
\* status_code (400, 401, 403, 404, 409, 429, 500, 503) and raises nothing for
\* any other status_code and for a response without one.
C10_ErrorMapping ==
  fnCall.name = "handleNordigenError"
  => IF /\ "status_code" \in DOMAIN fnCall.arg
        /\ \E e \in Taxonomy : e[1] = fnCall.arg.status_code
     THEN /\ fnResult.kind = "throw"
          /\ <<fnCall.arg.status_code, fnResult.error>> \in Taxonomy
     ELSE fnResult.kind = "undefined"

\* a 503 response raised ServiceError
C10_Witness ==
  /\ fnCall.name = "handleNordigenError"
  /\ "status_code" \in DOMAIN fnCall.arg
  /\ fnCall.arg.status_code = 503
  /\ fnResult.kind = "throw"
  /\ fnResult.error = "ServiceError"

\* ===================================================== service properties
\* the calls request p made of one client method, by their position in calls[p]
CallsOf(p, api) == {i \in 1..Len(calls[p]) : calls[p][i].api = api}

\* request p has fetched its requisition
Fetched(p) == DOMAIN requisition[p] # {}

\* a generateToken call of some request was answered with an error
TokenFetchFailed ==
  \E p \in Procs :
    /\ pc[p] = "done"
    /\ Len(calls[p]) = 1
    /\ calls[p][1].api = "generateToken"

\* C1: starting with no access token, however the awaits of concurrently
\* started operations interleave, generateToken is called exactly once (as
\* long as no token fetch failed) and every operation makes its collaborator
\* calls with the same token.
C1_SingleFlight ==
  ~TokenFetchFailed
  => /\ (\E p \in Procs : pc[p] # "idle")
          => \E p \in Procs :
               /\ Cardinality(CallsOf(p, "generateToken")) = 1
               /\ \A q \in Procs \ {p} : CallsOf(q, "generateToken") = {}
     /\ \A p, q \in Procs :
          \A i \in 1..Len(calls[p]), j \in 1..Len(calls[q]) :
            (calls[p][i].api # "generateToken" /\ calls[q][j].api # "generateToken")
            => calls[p][i].token = calls[q][j].token

LinkedOperations ==
  {"getLinkedRequisition", "getRequisitionWithAccounts", "getTransactionsWithBalance"}

\* C2: once the requisition is fetched, getLinkedRequisition,
\* getRequisitionWithAccounts and getTransactionsWithBalance each end with
\* RequisitionNotLinked carrying the fetched status, and with no result, when
\* that status is not "LN"; when it is "LN" getLinkedRequisition returns the
\* requisition as the collaborator answered it.
C2_LinkStatusGuard ==
  \A p \in Procs :
    (op[p].name \in LinkedOperations /\ Fetched(p))
    => IF requisition[p].status # "LN"
       THEN /\ pc[p] = "done"
            /\ result[p].kind = "throw"
            /\ result[p].error = "RequisitionNotLinked"
            /\ result[p].value = [requisitionStatus |-> requisition[p].status]
       ELSE op[p].name = "getLinkedRequisition"
            => /\ pc[p] = "done"
               /\ result[p].kind = "object"
               /\ result[p].value = StoredRequisition(op[p].requisitionId)

\* getTransactionsWithBalance on an expired requisition ended with
\* RequisitionNotLinked
C2_Witness ==
  /\ op[1].name = "getTransactionsWithBalance"
  /\ Fetched(1)
  /\ requisition[1].status = "EX"
  /\ pc[1] = "done"
  /\ result[1].error = "RequisitionNotLinked"

\* the transactions and the balances of request p both arrived without error
TransactionsAndBalancesArrived(p) ==
  /\ {<<"getTransactions", 0>>, <<"getBalances", 0>>} \subseteq DOMAIN received[p]
  /\ \A key \in DOMAIN received[p] : handleNordigenError(received[p][key]) = NoError

\* C3: on a linked requisition getTransactionsWithBalance fails with
\* AccountNotLinedToRequisition exactly when accountId is not among the
\* requisition's accounts, and then calls neither getTransactions nor
\* getBalances; with accountId among them and every collaborator answer
\* successful it returns a result.
C3_LinkageGuard ==
  \A p \in Procs :
    (/\ op[p].name = "getTransactionsWithBalance"
     /\ Fetched(p)
     /\ requisition[p].status = "LN")
    => LET member == \E i \in 1..Len(requisition[p].accounts) :
                       requisition[p].accounts[i] = op[p].accountId
       IN  /\ ~member
               => /\ pc[p] = "done"
                  /\ result[p].error = "AccountNotLinedToRequisition"
                  /\ CallsOf(p, "getTransactions") = {}
                  /\ CallsOf(p, "getBalances") = {}
           /\ member => result[p].error # "AccountNotLinedToRequisition"
           /\ (member /\ pc[p] = "done" /\ TransactionsAndBalancesArrived(p))
               => result[p].kind = "object"

\* C4: in one getRequisitionWithAccounts, whatever the order in which the
\* account answers arrive, getInstitutionById is called at most once for each
\* institution id, only for ids of the requisition's accounts, and no such
\* call is made before getDetails and getMetadata of every account answered.
C4_InstitutionFanIn ==
  \A p \in Procs :
    op[p].name = "getRequisitionWithAccounts"
    => LET fetches == CallsOf(p, "getInstitutionById")
           accounts == 1..Len(requisition[p].accounts)
       IN  /\ \A i, j \in fetches : i # j => calls[p][i].arg # calls[p][j].arg
           /\ fetches # {}
               => \A k \in accounts :
                    {<<"getDetails", k>>, <<"getMetadata", k>>} \subseteq DOMAIN received[p]
           /\ \A i \in fetches :
                \E k \in accounts :
                  calls[p][i].arg = <<received[p][<<"getMetadata", k>>].institution_id>>

\* two accounts of one institution: one institution call, and a result
C4_Witness ==
  /\ op[1].name = "getRequisitionWithAccounts"
  /\ Fetched(1)
  /\ requisition[1].accounts = <<"A1", "A2">>
  /\ pc[1] = "done"
  /\ result[1].kind = "object"
  /\ Cardinality(CallsOf(1, "getInstitutionById")) = 1
\* the answers request p has received that carry an error status_code
ErrorsReceived(p) ==
  {key \in DOMAIN received[p] : handleNordigenError(received[p][key]) # NoError}

\* the operations whose result is the collaborator's answer itself
AnswerReturningOperations == {"getRequisition", "getLinkedRequisition", "deleteRequisition"}

\* C11: no answer of the collaborator that carries an error status_code is
\* used as data: it is never the token, never the requisition an operation
\* works on, never returned, never merged into an account or followed by the
\* institution calls; the operation that received it ends with the error that
\* handleNordigenError maps it to.
C11_ErrorsNeverUsed ==
  /\ token \in {"", "t0"} \cup Tokens
  /\ \A p \in Procs :
       /\ Fetched(p) => handleNordigenError(requisition[p]) = NoError
       /\ (pc[p] = "done" /\ result[p].kind = "object"
           /\ op[p].name \in AnswerReturningOperations)
             => handleNordigenError(result[p].value) = NoError
       /\ (pc[p] = "institutions" \/ (pc[p] = "done" /\ result[p].kind # "throw"))
             => ErrorsReceived(p) = {}
       /\ \A key \in ErrorsReceived(p) :
            IF key[1] \in {"getDetails", "getMetadata"}
            THEN {<<"getDetails", key[2]>>, <<"getMetadata", key[2]>>}
                    \subseteq DOMAIN received[p]
                 => /\ pc[p] = "done"
                    /\ result[p].kind = "throw"
                    /\ \E e \in Taxonomy : result[p].error = e[2]
            ELSE /\ pc[p] = "done"
                 /\ result[p].kind = "throw"
                 /\ result[p].error = handleNordigenError(received[p][key])
                 /\ result[p].value = received[p][key]

\* an account whose details arrived and whose metadata carried an error: the
\* operation ended with that error
C11_Witness ==
  /\ op[1].name = "getRequisitionWithAccounts"
  /\ pc[1] = "done"
  /\ <<"getMetadata", 1>> \in ErrorsReceived(1)
  /\ <<"getDetails", 1>> \in DOMAIN received[1] \ ErrorsReceived(1)
  /\ result[1].kind = "throw"
  /\ result[1].error = handleNordigenError(received[1][<<"getMetadata", 1>>])
\* C12: the access token is empty at the start; once it is non-empty its value
\* never changes again (it is assigned once) and no further generateToken
\* call is made, however the operations interleave.
C12_TokenLifecycle ==
  /\ token = ""
  /\ [][token # ""
          => /\ token' = token
             /\ \A p \in Procs :
                  {i \in 1..Len(calls'[p]) : calls'[p][i].api = "generateToken"}
                    = CallsOf(p, "generateToken")]_vars
GatedOperations == {"getRequisitionWithAccounts", "getTransactionsWithBalance"}

\* the requisition fetch of request p was answered with an error
RequisitionFetchFailed(p) ==
  /\ pc[p] = "done"
  /\ ~Fetched(p)
  /\ CallsOf(p, "getRequisitionById") # {}

\* C13: when the requisition is not linked, and when its fetch fails with a
\* taxonomy error, getRequisitionWithAccounts and getTransactionsWithBalance
\* make no collaborator call besides the token fetch (at most one) and the one
\* requisition fetch, and end with the error.
C13_GuardGatesCalls ==
  \A p \in Procs :
    (/\ op[p].name \in GatedOperations
     /\ \/ RequisitionFetchFailed(p)
        \/ Fetched(p) /\ requisition[p].status # "LN")
    => /\ \A i \in 1..Len(calls[p]) :
            calls[p][i].api \in {"generateToken", "getRequisitionById"}
       /\ Cardinality(CallsOf(p, "getRequisitionById")) = 1
       /\ Cardinality(CallsOf(p, "generateToken")) <= 1
       /\ pc[p] = "done"
       /\ result[p].kind = "throw"
       /\ IF Fetched(p)
          THEN result[p].error = "RequisitionNotLinked"
          ELSE \E e \in Taxonomy : result[p].error = e[2]

\* getRequisitionWithAccounts on an expired requisition that holds an account:
\* the token fetch and the requisition fetch were the only calls
C13_Witness ==
  /\ op[1].name = "getRequisitionWithAccounts"
  /\ Fetched(1)
  /\ requisition[1].status = "EX"
  /\ requisition[1].accounts = <<"A1">>
  /\ Len(calls[1]) = 2
  /\ calls[1][1].api = "generateToken"
  /\ calls[1][2].api = "getRequisitionById"
  /\ pc[1] = "done"
\* the institution answer request p received for the given identifier
InstitutionReceived(p, institutionId) ==
  LET keys == {key \in DOMAIN received[p] :
                 /\ key[1] = "getInstitutionById"
                 /\ received[p][key].id = institutionId}
  IN  received[p][CHOOSE key \in keys : TRUE]

C15_JoinAborts ==
  \A p \in Procs :
    op[p].name \in GatedOperations
    => /\ (pc[p] = "done" /\ ErrorsReceived(p) # {})
            => /\ result[p].kind = "throw"
               /\ \E key \in ErrorsReceived(p) :
                    /\ result[p].error = handleNordigenError(received[p][key])
                    /\ result[p].value = received[p][key]
       /\ (pc[p] # "done" /\ ErrorsReceived(p) # {})
            => /\ pc[p] = "accounts"
               /\ \A key \in ErrorsReceived(p) :
                    ~({<<"getDetails", key[2]>>, <<"getMetadata", key[2]>>}
                        \subseteq DOMAIN received[p])
       /\ (\E key \in ErrorsReceived(p) : key[1] \in {"getDetails", "getMetadata"})
            => CallsOf(p, "getInstitutionById") = {}
       /\ \A i, j \in 1..Len(calls[p]) :
            i # j => <<calls[p][i].api, calls[p][i].arg>> # <<calls[p][j].api, calls[p][j].arg>>

\* the transactions arrived, the balances carried an error: the operation
\* ended with that error
C15_Witness ==
  /\ op[1].name = "getTransactionsWithBalance"
  /\ pc[1] = "done"
  /\ ErrorsReceived(1) = {<<"getBalances", 0>>}
  /\ <<"getTransactions", 0>> \in DOMAIN received[1]
  /\ result[1].kind = "throw"
  /\ result[1].error = "RateLimitError"
\* C16: what getTransactionsWithBalance returns is, for the adapter of the
\* requisition's institution_id: the balances as fetched, that institution_id,
\* the booked list and the pending list each as the adapter's sortTransactions
\* gives it, and the starting balance the adapter computes from the sorted
\* booked list and the balances alone (for the default algorithm the first
\* interimAvailable amount minus the booked amounts); the arrival order of
\* the two answers does not matter.
C16_TransactionsWithBalance ==
  \A p \in Procs :
    (/\ op[p].name = "getTransactionsWithBalance"
     /\ pc[p] = "done"
     /\ result[p].kind = "object")
    => LET fetched == received[p][<<"getTransactions", 0>>]
           balances == received[p][<<"getBalances", 0>>].balances
           bank == BankFactory(requisition[p].institution_id)
           booked == CallSortTransactions(
                       bank, OptionalArray(fetched, "transactions", "booked")).value
           pending == CallSortTransactions(
                        bank, OptionalArray(fetched, "transactions", "pending")).value
           out == result[p].value
       IN  /\ out.balances = balances
           /\ out.institutionId = requisition[p].institution_id
           /\ out.transactions.booked = booked
           /\ out.transactions.pending = pending
           /\ out.startingBalance
                = CallCalculateStartingBalance(bank, booked, balances).value
           /\ out.startingBalance
                = (IF HasInterimAvailable(balances)
                   THEN amountToInteger(FirstInterimAvailable(balances).balanceAmount.amount)
                   ELSE 0)
                  - SumAmounts(OptionalArray(fetched, "transactions", "booked"))

\* booked and pending transactions and an interimAvailable balance of 1000.00:
\* the starting balance is 1000.00 + 5.00 - 2.00, the pending 0.10 left out
C16_Witness ==
  /\ op[1].name = "getTransactionsWithBalance"
  /\ pc[1] = "done"
  /\ result[1].kind = "object"
  /\ result[1].value.transactions.booked = <<PaymentTransaction, RefundTransaction>>
  /\ result[1].value.transactions.pending = <<PendingTransaction>>
  /\ result[1].value.startingBalance = 100300
\* C17: deleteRequisition calls the client's delete only after the
\* requisition fetch has succeeded: a fetch answered with an error ends the
\* operation with the error mapped from that answer and no delete call is
\* made; after a successful fetch exactly one delete call is made, whatever
\* the status of the requisition.
C17_DeleteAfterFetch ==
  \A p \in Procs :
    op[p].name = "deleteRequisition"
    => /\ \A d \in CallsOf(p, "deleteRequisition") :
            /\ Fetched(p)
            /\ \E f \in CallsOf(p, "getRequisitionById") : f < d
       /\ Fetched(p) => Cardinality(CallsOf(p, "deleteRequisition")) = 1
       /\ RequisitionFetchFailed(p)
            => /\ CallsOf(p, "deleteRequisition") = {}
               /\ result[p].kind = "throw"
               /\ \E e \in Taxonomy : result[p].error = e[2]
               /\ result[p].error = handleNordigenError(result[p].value)

\* a requisition that is not linked was fetched and deleted
C17_Witness ==
  /\ op[1].name = "deleteRequisition"
  /\ Fetched(1)
  /\ requisition[1].status = "EX"
  /\ pc[1] = "done"
  /\ result[1].kind = "object"
  /\ Cardinality(CallsOf(1, "deleteRequisition")) = 1
\* C18: normalizeTransaction of NORDEA_NDEADKKK returns null (no object and
\* no error) for a transaction whose transactionId starts with "P" and a
\* normalized transaction for one whose transactionId does not.
C18_NordeaDrop ==
  (/\ fnCall.name = "normalizeTransaction"
   /\ fnCall.institutionId = "NORDEA_NDEADKKK"
   /\ "transactionId" \in DOMAIN fnCall.arg)
  => IF StartsWith(fnCall.arg.transactionId, <<"P">>)
     THEN fnResult.kind = "null"
     ELSE fnResult.kind = "object"
\* C19: calculateStartingBalance of NORDEA_NDEADKKK and of
\* BERLINER_SPARKASSE_BELADEBEXXX takes the balance of type interimBooked as
\* the current balance (as their doc comments say): with such a balance in the
\* list the result is its integer amount minus the transactions' amounts.
C19_InterimBooked ==
  (/\ fnCall.name = "calculateStartingBalance"
   /\ fnCall.institutionId \in {"NORDEA_NDEADKKK", "BERLINER_SPARKASSE_BELADEBEXXX"}
   /\ FindBalance(fnCall.balances, "interimBooked") # 0)
  => /\ fnResult.kind = "int"
     /\ fnResult.value =
          amountToInteger(
            fnCall.balances[FindBalance(fnCall.balances, "interimBooked")]
              .balanceAmount.amount)
          - SumAmounts(fnCall.arg)
\* the remittance part of a transaction: the unstructured text, else the
\* structured text, else the array's entries joined by one space, else nothing
RemittancePart(transaction) ==
  IF "remittanceInformationUnstructured" \in DOMAIN transaction
  THEN transaction.remittanceInformationUnstructured
  ELSE IF "remittanceInformationStructured" \in DOMAIN transaction
  THEN transaction.remittanceInformationStructured
  ELSE IF "remittanceInformationStructuredArray" \in DOMAIN transaction
  THEN JoinSpace(transaction.remittanceInformationStructuredArray)
  ELSE <<>>

\* C20: the remittance text the default normalizeTransaction
\* (BERLINER_SPARKASSE_BELADEBEXXX) puts out is the remittance part followed,
\* when additionalInformation is present, by one space and
\* additionalInformation; with no remittance part it is additionalInformation
\* alone, and with neither there is no text.
C20_RemittanceText ==
  (/\ fnCall.name = "normalizeTransaction"
   /\ fnCall.institutionId = "BERLINER_SPARKASSE_BELADEBEXXX"
   /\ fnResult.kind = "object")
  => LET part == RemittancePart(fnCall.arg)
         text == fnResult.value.remittanceInformationUnstructured
     IN  IF "additionalInformation" \notin DOMAIN fnCall.arg
         THEN text = part \/ (part = <<>> /\ text = Undefined)
         ELSE IF part = <<>>
         THEN text = fnCall.arg.additionalInformation
         ELSE text = part \o <<" ">> \o fnCall.arg.additionalInformation
\* the generateToken call of request p was answered with an error
TokenFetchFailedAt(p) ==
  /\ pc[p] = "done"
  /\ Len(calls[p]) = 1
  /\ calls[p][1].api = "generateToken"

\* C21: a generateToken answer with an error status_code makes the operation
\* end with the error mapped from that status_code and is never stored: the
\* token is non-empty only as the access field of an answer that let an
\* operation go on, so it stays empty after a failure, and an operation that
\* starts while the token is empty calls generateToken again.
C21_FailedTokenFetch ==
  /\ \A p \in Procs :
       TokenFetchFailedAt(p)
       => /\ result[p].kind = "throw"
          /\ <<result[p].value.status_code, result[p].error>> \in Taxonomy
  /\ token # ""
       => \E p \in Procs :
            /\ Len(calls[p]) >= 2
            /\ calls[p][1].api = "generateToken"
            /\ calls[p][2].token = token
  /\ \A p \in Procs :
       (calls[p] # <<>> /\ calls[p][1].api # "generateToken")
       => calls[p][1].token # ""

\* the first operation's token fetch was rejected with an answer carrying an
\* access field; the token is still empty and the next operation has called
\* generateToken
C21_Witness ==
  /\ TokenFetchFailedAt(1)
  /\ result[1].value \in RejectedTokenResponses
  /\ token = ""
  /\ pc[2] = "token"
  /\ calls[2] = <<Call("generateToken", <<>>, "")>>
\* C22: calculateStartingBalance of every adapter returns an integer for every
\* list of balances, the empty list and a list without a balance of the
\* adapter's current-balance type included, and raises no error.
C22_StartingBalanceTotal ==
  (/\ fnCall.name = "calculateStartingBalance"
   /\ fnCall.institutionId \in RegisteredInstitutionIds)
  => fnResult.kind = "int"
=============================================================================
